---- MODULE Spec2Model ----
(***************************************************************************)
(* eytzinger_array<T, N, Compare> (src/eytzinger_array.hpp): a fixed-size   *)
(* array that is sorted and permuted into the Eytzinger (breadth-first)     *)
(* layout by its constructor, and searched by find().                       *)
(*                                                                          *)
(* T is modelled by small integers, Compare by std::less / std::greater.    *)
(* Tree indices are 1-based as in the source (node k is buffer[k-1]); TLA+  *)
(* sequences are 1-based too, so the C++ element arr[j] is arr[j + 1] here. *)
(***************************************************************************)
EXTENDS Integers, Sequences, FiniteSets

\* ---- bounds ----
MaxN == 5
MaxVal == 5

\* unsigned long k (LP64): the width __builtin_ffsl and ~ work on
LongBits == 64

Sizes == 0 .. MaxN
Values == 1 .. MaxVal
Targets == 0 .. (MaxVal + 1)
Comparators == {"less", "greater"}

VARIABLES N, comp, arr, buffer, pc, value, k, path, reads, ret

vars == <<N, comp, arr, buffer, pc, value, k, path, reads, ret>>

\* ---- the comparator: Compare::operator()(a, b) ----
Compare(c, a, b) == IF c = "less" THEN a < b ELSE a > b

\* ---- std::sort(arr.begin(), arr.end(), comp) ----
RECURSIVE InsertSorted(_, _, _)
InsertSorted(c, s, x) ==
    IF s = <<>> THEN <<x>>
    ELSE IF Compare(c, x, Head(s)) THEN <<x>> \o s
    ELSE <<Head(s)>> \o InsertSorted(c, Tail(s), x)

RECURSIVE SortFrom(_, _, _)
SortFrom(c, rest, done) ==
    IF rest = <<>> THEN done
    ELSE SortFrom(c, Tail(rest), InsertSorted(c, done, Head(rest)))

\* mutant: the sort is left out
sort_omitted(a, c) == a

sort(a, c) == SortFrom(c, a, <<>>)

\* mutant: the node is written before the left subtree (pre-order)
RECURSIVE breadth_first_copy_preorder(_, _, _, _, _)
breadth_first_copy_preorder(n, in, out, i, kk) ==
    IF kk <= n
    THEN LET w == [out EXCEPT ![kk] = in[i + 1]]
             l == breadth_first_copy_preorder(n, in, w, i + 1, kk * 2)
         IN  breadth_first_copy_preorder(n, in, l.out, l.i, kk * 2 + 1)
    ELSE [out |-> out, i |-> i]

\* ---- breadth_first_copy(in, out, i, k): returns the out array and i ----
RECURSIVE breadth_first_copy(_, _, _, _, _)
breadth_first_copy(n, in, out, i, kk) ==
    IF kk <= n
    THEN LET l == breadth_first_copy(n, in, out, i, kk * 2)
             w == [l.out EXCEPT ![kk] = in[l.i + 1]]
         IN  breadth_first_copy(n, in, w, l.i + 1, kk * 2 + 1)
    ELSE [out |-> out, i |-> i]

\* ---- make_eytzinger(arr, comp): arr is sorted in place, result starts ----
\* ---- with indeterminate cells; yields the sorted arr and the result  ----
make_eytzinger(n, a, c, result) ==
    LET sorted == sort(a, c)
    IN  [arr |-> sorted,
         result |-> breadth_first_copy(n, sorted, result, 0, 1).out]

\* ---- operator[](i): reading outside [0, N) is undefined ----
ReadAt(i) == IF i \in 0 .. (N - 1) THEN {buffer[i + 1]} ELSE Values

\* ---- bit operations on unsigned long ----
RECURSIVE Shr(_, _)
Shr(x, n) == IF n = 0 THEN x ELSE Shr(x \div 2, n - 1)

ToBits(x) == [b \in 1 .. LongBits |-> Shr(x, b - 1) % 2]

\* mutant: the complement is left out
BitNot_omitted(bits) == bits

\* ~x
BitNot(bits) == [b \in 1 .. LongBits |-> 1 - bits[b]]

\* mutant: the zero-based index of the least significant 1-bit (ctz)
Ffsl_zero_based(bits) ==
    IF \A b \in 1 .. LongBits : bits[b] = 0 THEN 0
    ELSE (CHOOSE b \in 1 .. LongBits :
            bits[b] = 1 /\ \A j \in 1 .. (b - 1) : bits[j] = 0) - 1

\* __builtin_ffsl: one plus the index of the least significant 1-bit, or 0
Ffsl(bits) ==
    IF \A b \in 1 .. LongBits : bits[b] = 0 THEN 0
    ELSE CHOOSE b \in 1 .. LongBits :
            bits[b] = 1 /\ \A j \in 1 .. (b - 1) : bits[j] = 0

\* mutant: the loop runs one index too far
LoopCond_off_by_one(kk, n) == kk <= n + 1

\* while (k <= N)
LoopCond(kk, n) == kk <= n

\* mutant: the walk turns the other way
Descend_inverted(c, kk, elem, v) ==
    2 * kk + (IF Compare(c, elem, v) THEN 0 ELSE 1)

\* k = 2 * k + Compare::operator()(operator[](k - 1), value)
Descend(c, kk, elem, v) == 2 * kk + (IF Compare(c, elem, v) THEN 1 ELSE 0)

\* mutant: the shift stops at the trailing one-bits, keeping the zero bit
Correct_ones_only(kk) == Shr(kk, Ffsl(BitNot(ToBits(kk))) - 1)

\* k >>= __builtin_ffsl(~k)
Correct(kk) == Shr(kk, Ffsl(BitNot(ToBits(kk))))

NoPos == "none"

Init ==
    /\ N \in Sizes
    /\ comp \in Comparators
    /\ arr \in [1 .. N -> Values]
    /\ buffer = <<>>
    /\ pc = "new"
    /\ value = 0
    /\ k = 0
    /\ path = <<>>
    /\ reads = {}
    /\ ret = NoPos

\* eytzinger_array(array arr, const Compare &comp): arr is the constructor's
\* own copy of the caller's values
Construct ==
    /\ pc = "new"
    /\ \E junk \in Values :
          LET made == make_eytzinger(N, arr, comp, [j \in 1 .. N |-> junk])
          IN  /\ arr' = made.arr
              /\ buffer' = made.result
    /\ pc' = "ready"
    /\ UNCHANGED <<N, comp, value, k, path, reads, ret>>

\* find(value): unsigned long k = 1
FindEnter ==
    /\ pc \in {"ready", "done"}
    /\ \E v \in Targets : value' = v
    /\ k' = 1
    /\ path' = <<1>>
    /\ reads' = {}
    /\ ret' = NoPos
    /\ pc' = "walk"
    /\ UNCHANGED <<N, comp, arr, buffer>>

\* one iteration of the while loop
FindLoop ==
    /\ pc = "walk"
    /\ LoopCond(k, N)
    /\ \E elem \in ReadAt(k - 1) : k' = Descend(comp, k, elem, value)
    /\ reads' = reads \cup {k - 1}
    /\ path' = Append(path, k')
    /\ UNCHANGED <<N, comp, arr, buffer, pc, value, ret>>

\* loop exit, then k >>= __builtin_ffsl(~k)
FindShift ==
    /\ pc = "walk"
    /\ ~LoopCond(k, N)
    /\ k' = Correct(k)
    /\ pc' = "shifted"
    /\ UNCHANGED <<N, comp, arr, buffer, value, path, reads, ret>>

\* mutant: the corrected index is returned as it is, without the - 1
FindReturn_no_offset ==
    /\ pc = "shifted"
    /\ ret' = k
    /\ pc' = "done"
    /\ UNCHANGED <<N, comp, arr, buffer, value, k, path, reads>>

\* return cbegin() + k - 1, the iterator kept as its distance from begin()
FindReturn ==
    /\ pc = "shifted"
    /\ ret' = k - 1
    /\ pc' = "done"
    /\ UNCHANGED <<N, comp, arr, buffer, value, k, path, reads>>

\* cbegin() + 0 - 1 points before the array: undefined; a build with checked
\* iterators stops here instead of returning
FindTrap ==
    /\ pc = "shifted"
    /\ k = 0
    /\ pc' = "trapped"
    /\ UNCHANGED <<N, comp, arr, buffer, value, k, path, reads, ret>>

Next ==
    \/ Construct
    \/ FindEnter
    \/ FindLoop
    \/ FindShift
    \/ FindReturn
    \/ FindTrap

Spec == Init /\ [][Next]_vars

\* ---------------------------------------------------------------------
\* Vocabulary of the properties
\* ---------------------------------------------------------------------

\* in-order traversal of the implicit tree on n nodes, as tree indices
RECURSIVE InOrder(_, _)
InOrder(kk, n) ==
    IF kk > n THEN <<>>
    ELSE InOrder(2 * kk, n) \o <<kk>> \o InOrder(2 * kk + 1, n)

Constructed == pc # "new"
Returned == pc = "done"

\* the values of a buffer of n cells in in-order
TraversalOf(n, buf) ==
    CHOOSE t \in {[r \in 1 .. n |-> buf[InOrder(1, n)[r]]]} : TRUE

Traversal == TraversalOf(N, buffer)

Count(s, x) == Cardinality({j \in DOMAIN s : s[j] = x})

IsSortedUnder(c, seq) ==
    \A s \in {seq} : \A a \in DOMAIN s : \A b \in DOMAIN s :
        a < b => ~Compare(c, s[b], s[a])

Stored == {buffer[j] : j \in 1 .. N}

Equivalent(a, b) == ~Compare(comp, a, b) /\ ~Compare(comp, b, a)

\* sorted ranks whose element is not less than the target
NotLess == {r \in 1 .. N : ~Compare(comp, Traversal[r], value)}

MinOf(S) == CHOOSE x \in S : \A y \in S : x <= y
MaxOf(S) == CHOOSE x \in S : \A y \in S : y <= x

\* walk steps that went to the left child
LeftSteps == {j \in 1 .. (Len(path) - 1) : path[j + 1] = 2 * path[j]}

\* the target lies strictly between the elements of ranks r and r + 1
Between(r) ==
    /\ r \in 1 .. (N - 1)
    /\ Compare(comp, Traversal[r], value)
    /\ Compare(comp, value, Traversal[r + 1])

BelowAll == N >= 1 /\ \A e \in Stored : Compare(comp, value, e)

\* ---------------------------------------------------------------------
\* C1: after construction the in-order traversal of the buffer, read as
\* an implicit binary tree, is sorted under the comparator and holds
\* exactly the input values with their multiplicities.
\* ---------------------------------------------------------------------
\* (arr is the input before the constructor runs, buffer' the layout
\* after it.)
LayoutInOrderSorted ==
    [][pc = "new" =>
          \A visited \in {TraversalOf(N, buffer')} :
              /\ Len(buffer') = N
              /\ IsSortedUnder(comp, visited)
              /\ \A x \in Values : Count(buffer', x) = Count(arr, x)]_vars

LayoutWitness ==
    /\ Constructed
    /\ N = MaxN
    /\ \E a \in 1 .. N : \E b \in 1 .. N : a # b /\ buffer[a] = buffer[b]
    /\ Cardinality(Stored) >= 3
    /\ buffer # arr
    /\ Traversal = arr

\* ---------------------------------------------------------------------
\* C2: find of a value that is in the input returns a position p in
\* [0, N) whose element is equivalent to the value under the comparator.
\* ---------------------------------------------------------------------
FindPresent ==
    (Returned /\ \E j \in 1 .. N : arr[j] = value) =>
        /\ ret \in 0 .. (N - 1)
        /\ Equivalent(buffer[ret + 1], value)

FindPresentWitness ==
    /\ Returned
    /\ N >= 4
    /\ \E j \in 1 .. N : arr[j] = value
    /\ Len(path) >= 3
    /\ ret \in 1 .. (N - 1)
    /\ buffer[ret + 1] = value

\* ---------------------------------------------------------------------
\* C3 as stated: for a target smaller than every stored element (N >= 1)
\* the corrected index is 0 and find returns end(), position N.
\* ---------------------------------------------------------------------
BelowAllGivesEnd ==
    (Returned /\ BelowAll) => (k = 0 /\ ret = N)

\* C3 amended: for a target smaller than every stored element (N >= 1)
\* the walk goes left at every step, the corrected index is the leftmost
\* node of the tree and find returns the position of the smallest
\* element, never end().
BelowAllGivesSmallest ==
    (Returned /\ BelowAll) =>
        /\ k = InOrder(1, N)[1]
        /\ ret = k - 1
        /\ ret \in 0 .. (N - 1)
        /\ buffer[ret + 1] = Traversal[1]
        /\ \A e \in Stored : ~Compare(comp, e, buffer[ret + 1])

BelowAllWitness ==
    /\ Returned
    /\ BelowAll
    /\ N >= 4
    /\ ret = 3
    /\ Cardinality(Stored) >= 3

\* ---------------------------------------------------------------------
\* C4 as stated: for an absent target strictly between a and b, adjacent
\* in sorted order, find returns the position of a.
\* ---------------------------------------------------------------------
BetweenGivesFloor ==
    \A r \in 1 .. (N - 1) :
        (Returned /\ Between(r)) =>
            /\ ret \in 0 .. (N - 1)
            /\ buffer[ret + 1] = Traversal[r]

\* C4 amended: for an absent target strictly between a and b, adjacent
\* in sorted order, find returns the position of b, the least element
\* not less than the target.
BetweenGivesCeiling ==
    \A r \in 1 .. (N - 1) :
        (Returned /\ Between(r)) =>
            /\ ret = InOrder(1, N)[r + 1] - 1
            /\ buffer[ret + 1] = Traversal[r + 1]

BetweenWitness ==
    /\ Returned
    /\ N >= 4
    /\ \E r \in 2 .. (N - 1) : Between(r) /\ ret = InOrder(1, N)[r + 1] - 1
    /\ value \notin Stored

\* ---------------------------------------------------------------------
\* C5: whenever the corrected index is 0 find returns end(), position N,
\* and find never returns a position outside [0, N].
\* ---------------------------------------------------------------------
MissGivesEnd ==
    /\ (Returned /\ k = 0) => ret = N
    /\ Returned => ret \in 0 .. N

\* ---------------------------------------------------------------------
\* C6: every element read of find is at a position in [0, N).
\* ---------------------------------------------------------------------
ReadsInRange == reads \subseteq 0 .. (N - 1)

ReadsWitness ==
    /\ Returned
    /\ N = MaxN
    /\ Cardinality(reads) = 3
    /\ (N - 1) \in reads

\* ---------------------------------------------------------------------
\* C7: on the container built from {1, 2, 3, 4, 5} with the ascending
\* comparator, find(5) returns the iterator at distance 4 from begin().
\* ---------------------------------------------------------------------
ExampleOfUse ==
    (Returned /\ comp = "less" /\ arr = <<1, 2, 3, 4, 5>> /\ value = 5)
        => ret = 4

\* ---------------------------------------------------------------------
\* C8 as stated: input {5, 3, 1, 4, 2}, ascending, gives the layout
\* 1:3, 2:2, 3:5, 4:1, 5:4.
\* ---------------------------------------------------------------------
ScenarioLayoutStated ==
    [][(pc = "new" /\ comp = "less" /\ arr = <<5, 3, 1, 4, 2>>)
          => buffer' = <<3, 2, 5, 1, 4>>]_vars

\* C8 amended: input {5, 3, 1, 4, 2}, ascending, gives the layout
\* 1:4, 2:2, 3:5, 4:1, 5:3.
ScenarioLayout ==
    [][(pc = "new" /\ comp = "less" /\ arr = <<5, 3, 1, 4, 2>>)
          => buffer' = <<4, 2, 5, 1, 3>>]_vars

ScenarioWitness ==
    /\ pc = "ready"
    /\ comp = "less"
    /\ arr = <<1, 2, 3, 4, 5>>
    /\ buffer = <<4, 2, 5, 1, 3>>

\* ---------------------------------------------------------------------
\* C9: the corrected index k >> ffs(~k) is the tree index of the deepest
\* node of the walked path at which the walk went left, and it is 0
\* exactly when the walk went right at every step or made no step.
\* ---------------------------------------------------------------------
CorrectionIsLastLeft ==
    pc \in {"shifted", "done", "trapped"} =>
        /\ path[Len(path)] > N
        /\ LeftSteps # {} => k = path[MaxOf(LeftSteps)]
        /\ (k = 0) <=> (LeftSteps = {})

CorrectionWitness ==
    /\ pc = "shifted"
    /\ Len(path) = 4
    /\ LeftSteps # {}
    /\ MaxOf(LeftSteps) = 2
    /\ k = path[2]
    /\ k > 1

CorrectionZeroWitness ==
    /\ pc = "shifted"
    /\ Len(path) = 3
    /\ LeftSteps = {}
    /\ k = 0

\* ---------------------------------------------------------------------
\* C10: if some stored element is not less than the target, find returns
\* the position of the least such element in sorted order (lower bound);
\* the corrected index is 0 exactly when every stored element is less
\* than the target (or N = 0), and the position then returned is
\* begin() + 0 - 1, one before begin().
\* ---------------------------------------------------------------------
LowerBound ==
    /\ (Returned /\ NotLess # {}) =>
          /\ ret = InOrder(1, N)[MinOf(NotLess)] - 1
          /\ buffer[ret + 1] = Traversal[MinOf(NotLess)]
    /\ pc \in {"shifted", "done", "trapped"} => ((k = 0) <=> (NotLess = {}))
    /\ (Returned /\ k = 0) => ret = -1

LowerBoundWitness ==
    /\ Returned
    /\ N >= 4
    /\ NotLess # {}
    /\ MinOf(NotLess) \in 2 .. (N - 1)
    /\ Traversal[MinOf(NotLess)] = Traversal[MinOf(NotLess) + 1]
    /\ value \notin Stored

LowerBoundMissWitness ==
    /\ Returned
    /\ N >= 1
    /\ NotLess = {}
    /\ ret = -1
====
